---- MODULE Spec2Model ----
(***************************************************************************)
(* A model of the EventSource polyfill of src/src/index.ts and of the line *)
(* iterator of src/src/helper.ts.                                          *)
(*                                                                         *)
(* Strings are sequences of one-character strings, so that splitting,      *)
(* parsing and joining are computed character by character as the code     *)
(* computes them.                                                          *)
(*                                                                         *)
(* Five specifications share the module:                                   *)
(*   FramerSpec  textReaderToLineIterator applied to every chunking of     *)
(*               every bounded text;                                       *)
(*   ParserSpec  #handleEvent / #dispatch applied to every bounded         *)
(*               sequence of lines;                                        *)
(*   Spec        the connection: #connect, #startFetch, the timer and      *)
(*               microtask queues, close() and the visibility listener;    *)
(*   LiveSpec    Spec with the fairness the event loop guarantees;         *)
(*   HandlerSpec the setters of onopen, onmessage, onerror and onclose.    *)
(***************************************************************************)
EXTENDS Integers, Sequences, FiniteSets, TLC

(***************************************************************************)
(* Bounds of the model.                                                    *)
(***************************************************************************)
MaxChunks == 2

MaxChunkLen == 2

MaxLines == 4

MaxAttempts == 2

MaxReads == 2

(***************************************************************************)
(* Characters.                                                             *)
(***************************************************************************)
CR == "\r"

LF == "\n"

FramerChars == {"a", CR, LF}

Last(s) == s[Len(s)]

Front(s) == SubSeq(s, 1, Len(s) - 1)

(***************************************************************************)
(* chunk.split(/\r\n|\r|\n/gm): the pieces of s between the matches, found *)
(* left to right, \r\n tried first.  There is always at least one piece.   *)
(***************************************************************************)
RECURSIVE SplitFrom(_, _, _)
SplitFrom(s, i, cur) ==
    IF i > Len(s) THEN <<cur>>
    ELSE IF s[i] = CR /\ i < Len(s) /\ s[i + 1] = LF
         THEN <<cur>> \o SplitFrom(s, i + 2, <<>>)
    ELSE IF s[i] = CR \/ s[i] = LF
         THEN <<cur>> \o SplitFrom(s, i + 1, <<>>)
    ELSE SplitFrom(s, i + 1, Append(cur, s[i]))

Split(s) == SplitFrom(s, 1, <<>>)

(***************************************************************************)
(* One turn of the while loop of textReaderToLineIterator: the lines of    *)
(* the chunk, the first one prefixed by the carried lastLine when that is  *)
(* not empty.                                                              *)
(***************************************************************************)
ChunkPieces(lastLine, chunk) ==
    LET lines == Split(chunk)
    IN  IF lastLine # <<>>
        THEN [lines EXCEPT ![1] = lastLine \o lines[1]]
        ELSE lines

\* the lines the turn yields (lines.length -= 1; yield* lines)
ChunkLines(lastLine, chunk) == Front(ChunkPieces(lastLine, chunk))

\* lastLine after the turn
ChunkCarry(lastLine, chunk) == Last(ChunkPieces(lastLine, chunk))

\* after the loop: a non-empty lastLine is yielded
EndLines(lastLine) == IF lastLine # <<>> THEN <<lastLine>> ELSE <<>>

(***************************************************************************)
(* #handleEvent and #dispatch.                                             *)
(***************************************************************************)
defaultRetryTime == 1000

NUL == "NUL"

TAB == "\t"

\* the characters \s matches, among those of the model
WhiteSpace == {" ", TAB, CR, LF}

Digits == {"0", "1", "2", "3", "4", "5", "6", "7", "8", "9"}

DigitVal(c) ==
    CASE c = "0" -> 0 [] c = "1" -> 1 [] c = "2" -> 2 [] c = "3" -> 3
      [] c = "4" -> 4 [] c = "5" -> 5 [] c = "6" -> 6 [] c = "7" -> 7
      [] c = "8" -> 8 [] c = "9" -> 9

Includes(s, c) == \E i \in 1..Len(s) : s[i] = c

\* line.split(/:\s?/, 2): the pieces between the matches of ':' followed by
\* at most one white-space character; every match splits, and the limit
\* keeps the first two pieces only.
RECURSIVE ColonSplitFrom(_, _, _)
ColonSplitFrom(s, i, cur) ==
    IF i > Len(s) THEN <<cur>>
    ELSE IF s[i] = ":" /\ i < Len(s) /\ s[i + 1] \in WhiteSpace
         THEN <<cur>> \o ColonSplitFrom(s, i + 2, <<>>)
    ELSE IF s[i] = ":"
         THEN <<cur>> \o ColonSplitFrom(s, i + 1, <<>>)
    ELSE ColonSplitFrom(s, i + 1, Append(cur, s[i]))

ColonSplit(line) ==
    LET pieces == ColonSplitFrom(line, 1, <<>>)
    IN  IF Len(pieces) > 2 THEN SubSeq(pieces, 1, 2) ELSE pieces

\* [field, value] = line.split(/:\s?/, 2); value ??= ""
FieldOf(line) == ColonSplit(line)[1]

ValueOf(line) ==
    IF Len(ColonSplit(line)) >= 2 THEN ColonSplit(line)[2] ELSE <<>>

\* parseInt(value): leading white space is skipped, then an optional sign,
\* then the longest run of decimal digits; NaN when there is no digit.
RECURSIVE SkipSpace(_)
SkipSpace(s) ==
    IF s # <<>> /\ s[1] \in WhiteSpace THEN SkipSpace(Tail(s)) ELSE s

RECURSIVE DigitsValue(_, _)
DigitsValue(s, acc) ==
    IF s # <<>> /\ s[1] \in Digits
    THEN DigitsValue(Tail(s), 10 * acc + DigitVal(s[1]))
    ELSE acc

ParseInt(value) ==
    LET t    == SkipSpace(value)
        neg  == t # <<>> /\ t[1] = "-"
        body == IF t # <<>> /\ t[1] \in {"-", "+"} THEN Tail(t) ELSE t
    IN  IF body # <<>> /\ body[1] \in Digits
        THEN [nan |-> FALSE,
              n   |-> IF neg THEN 0 - DigitsValue(body, 0)
                             ELSE DigitsValue(body, 0)]
        ELSE [nan |-> TRUE, n |-> 0]

sEvent == <<"e", "v", "e", "n", "t">>

sData == <<"d", "a", "t", "a">>

sId == <<"i", "d">>

sRetry == <<"r", "e", "t", "r", "y">>

sMessage == <<"m", "e", "s", "s", "a", "g", "e">>

\* let buffers = { data: "", eventType: "", lastEventId: "" }
EmptyBuffers == [data |-> <<>>, eventType |-> <<>>, lastEventId |-> <<>>]

(***************************************************************************)
(* The parse state st: the attempt's buffers, the connection's             *)
(* #lastEventId and #reconnectTime, and tasks, the message events that     *)
(* #dispatch has handed to setTimeout, oldest first.                       *)
(***************************************************************************)
\* (mutant) #dispatch leaving eventType as it is when there is no data
DispatchKeepsType(st) ==
    LET b  == st.buffers
        s1 == [st EXCEPT !.lastEventId = b.lastEventId]
    IN  IF b.data = <<>>
        THEN s1
        ELSE LET data  == IF Last(b.data) = LF THEN Front(b.data) ELSE b.data
                 event == [type |-> IF b.eventType # <<>> THEN b.eventType
                                                          ELSE sMessage,
                           data |-> data,
                           lastEventId |-> b.lastEventId]
             IN  [s1 EXCEPT !.tasks = Append(@, event),
                            !.buffers.data = <<>>,
                            !.buffers.eventType = <<>>]

\* #dispatch
Dispatch(st) ==
    LET b  == st.buffers
        s1 == [st EXCEPT !.lastEventId = b.lastEventId]
    IN  IF b.data = <<>>
        THEN [s1 EXCEPT !.buffers.eventType = <<>>]
        ELSE LET data  == IF Last(b.data) = LF THEN Front(b.data) ELSE b.data
                 event == [type |-> IF b.eventType # <<>> THEN b.eventType
                                                          ELSE sMessage,
                           data |-> data,
                           lastEventId |-> b.lastEventId]
             IN  [s1 EXCEPT !.tasks = Append(@, event),
                            !.buffers.data = <<>>,
                            !.buffers.eventType = <<>>]

\* (mutant) #handleEvent committing the id as soon as its line is read
HandleEventCommitsId(line, st) ==
    IF line = <<>> THEN Dispatch(st)
    ELSE IF line[1] = ":" THEN st
    ELSE LET field == FieldOf(line)
             value == ValueOf(line)
         IN  IF field = sEvent
             THEN [st EXCEPT !.buffers.eventType = value]
             ELSE IF field = sData
             THEN [st EXCEPT !.buffers.data = @ \o value \o <<LF>>]
             ELSE IF field = sId
             THEN [st EXCEPT !.buffers.lastEventId = value,
                             !.lastEventId = value]
             ELSE IF field = sRetry
             THEN IF ~ParseInt(value).nan
                  THEN [st EXCEPT !.reconnectTime = ParseInt(value).n]
                  ELSE st
             ELSE st

HandleEvent(line, st) ==
    IF line = <<>> THEN Dispatch(st)
    ELSE IF line[1] = ":" THEN st
    ELSE LET field == FieldOf(line)
             value == ValueOf(line)
         IN  IF field = sEvent
             THEN [st EXCEPT !.buffers.eventType = value]
             ELSE IF field = sData
             THEN [st EXCEPT !.buffers.data = @ \o value \o <<LF>>]
             ELSE IF field = sId
             THEN IF ~Includes(field, NUL)
                  THEN [st EXCEPT !.buffers.lastEventId = value]
                  ELSE st
             ELSE IF field = sRetry
             THEN IF ~ParseInt(value).nan
                  THEN [st EXCEPT !.reconnectTime = ParseInt(value).n]
                  ELSE st
             ELSE st

\* for await (let line of lineIterator) this.#handleEvent(line, buffers)
RECURSIVE HandleLines(_, _)
HandleLines(lines, st) ==
    IF lines = <<>> THEN st
    ELSE HandleLines(Tail(lines), HandleEvent(lines[1], st))

(***************************************************************************)
(* The field and the value of a line as the specification states them     *)
(* (4.2): the text before the first ':', and everything after it less at   *)
(* most one leading space (empty when the line has no colon).  They are    *)
(* what the claims compare the code's parse with.                          *)
(***************************************************************************)
RECURSIVE FirstColon(_, _)
FirstColon(line, i) ==
    IF i > Len(line) THEN 0
    ELSE IF line[i] = ":" THEN i
    ELSE FirstColon(line, i + 1)

StatedField(line) ==
    IF FirstColon(line, 1) = 0 THEN line
    ELSE SubSeq(line, 1, FirstColon(line, 1) - 1)

StatedValue(line) ==
    LET c    == FirstColon(line, 1)
        rest == SubSeq(line, c + 1, Len(line))
    IN  IF c = 0 THEN <<>>
        ELSE IF rest # <<>> /\ rest[1] = " " THEN Tail(rest)
        ELSE rest

VARIABLES fChunks, fPos, fLast, fOut, fDone, pLines, pPos, pSt,
          readyState, lastEventId, reconnectTime, signalAborted, attempts,
          timers, micro, events, hidden, disconnectOnHidden, lastRetry,
          onHandler, listeners

framerVars == <<fChunks, fPos, fLast, fOut, fDone>>

parserVars == <<pLines, pPos, pSt>>

connVars ==
    <<readyState, lastEventId, reconnectTime, signalAborted, attempts,
      timers, micro, events, hidden, disconnectOnHidden, lastRetry>>

handlerVars == <<onHandler, listeners>>

vars == <<framerVars, parserVars, connVars, handlerVars>>

(***************************************************************************)
(* FramerSpec: the reader delivers fChunks one by one, then ends.          *)
(***************************************************************************)
ChunkSet == UNION {[1..n -> FramerChars] : n \in 0..MaxChunkLen}

ChunkSeqs == UNION {[1..n -> ChunkSet] : n \in 0..MaxChunks}

FramerStart ==
    /\ fPos = 0
    /\ fLast = <<>>
    /\ fOut = <<>>
    /\ fDone = FALSE

FramerIdle ==
    /\ fChunks = <<>>
    /\ FramerStart

FramerInit ==
    /\ fChunks \in ChunkSeqs
    /\ FramerStart

\* reader.read() resolves with a chunk
FramerRead ==
    /\ ~fDone
    /\ fPos < Len(fChunks)
    /\ fPos' = fPos + 1
    /\ fOut' = fOut \o ChunkLines(fLast, fChunks[fPos + 1])
    /\ fLast' = ChunkCarry(fLast, fChunks[fPos + 1])
    /\ UNCHANGED <<fChunks, fDone>>
    /\ UNCHANGED <<parserVars, connVars, handlerVars>>

\* reader.read() resolves with done
FramerEnd ==
    /\ ~fDone
    /\ fPos = Len(fChunks)
    /\ fOut' = fOut \o EndLines(fLast)
    /\ fDone' = TRUE
    /\ UNCHANGED <<fChunks, fPos, fLast>>
    /\ UNCHANGED <<parserVars, connVars, handlerVars>>

FramerNext ==
    \/ FramerRead
    \/ FramerEnd

(***************************************************************************)
(* ParserSpec: one attempt's for-await loop over a sequence of lines, from *)
(* the fresh buffers of #startFetch.                                       *)
(***************************************************************************)
lBlank == <<>>

lComment == <<":", "c">>

lDataX == <<"d", "a", "t", "a", ":", " ", "x">>

lDataNoColon == <<"d", "a", "t", "a">>

lDataColon == <<"d", "a", "t", "a", ":", " ", "a", ":", "b">>

lEventE == <<"e", "v", "e", "n", "t", ":", " ", "e">>

lEventEmpty == <<"e", "v", "e", "n", "t", ":">>

lId1 == <<"i", "d", ":", " ", "1">>

lIdNul == <<"i", "d", ":", " ", "2", NUL>>

lRetry5 == <<"r", "e", "t", "r", "y", ":", " ", "5">>

lRetryNeg == <<"r", "e", "t", "r", "y", ":", " ", "-", "1">>

lRetryBad == <<"r", "e", "t", "r", "y", ":", " ", "7", "x">>

ParserLines ==
    {lBlank, lComment, lDataX, lDataNoColon, lDataColon, lEventE,
     lEventEmpty, lId1, lIdNul, lRetry5, lRetryNeg, lRetryBad}

LineSeqs == UNION {[1..n -> ParserLines] : n \in 0..MaxLines}

ParseStart ==
    [buffers |-> EmptyBuffers, lastEventId |-> <<>>,
     reconnectTime |-> defaultRetryTime, tasks |-> <<>>]

ParserStart ==
    /\ pPos = 0
    /\ pSt = ParseStart

ParserIdle ==
    /\ pLines = <<>>
    /\ ParserStart

ParserInit ==
    /\ pLines \in LineSeqs
    /\ ParserStart

\* the iterator yields the next line; pSt.tasks holds what this line's
\* #handleEvent handed to setTimeout
ParserHandle ==
    /\ pPos < Len(pLines)
    /\ pPos' = pPos + 1
    /\ pSt' = HandleEvent(pLines[pPos + 1], [pSt EXCEPT !.tasks = <<>>])
    /\ UNCHANGED pLines
    /\ UNCHANGED <<framerVars, connVars, handlerVars>>

ParserNext == ParserHandle



(***************************************************************************)
(* Spec: the connection.                                                   *)
(*                                                                         *)
(*   attempts    one record per call of #connect, in order: phase is       *)
(*               "fetch" while #startFetch awaits fetchPromise, "read"     *)
(*               while it awaits the line iterator, "done" after it        *)
(*               returned; aborted is the state of the signal the fetch    *)
(*               was given; header is the Last-Event-ID header sent (<<>>  *)
(*               when not set); resp is the response ("none", "valid",     *)
(*               "invalid"); by is the caller of #connect and of the       *)
(*               attempt whose failure that caller handles; end is how     *)
(*               #startFetch ended ("network", "invalid", "abort", "end"); *)
(*               idRead is (history) the id its buffers held at that time; *)
(*               buffers and lastLine are the locals of #startFetch and of *)
(*               the line iterator; reads counts the chunks it has read;   *)
(*   timers      the pending setTimeout callbacks, in the order they were  *)
(*               set;                                                      *)
(*   micro       the pending promise reactions of #reconnect, in order;    *)
(*   events      for each attempt, the events handed to dispatchEvent on  *)
(*               its behalf, in order;                                     *)
(*   lastRetry   (history) the value of the last retry: line received      *)
(*               whose value is a decimal number.                          *)
(***************************************************************************)
CONNECTING == 0

OPEN == 1

CLOSED == 2

NoEvent == [type |-> <<>>, data |-> <<>>, lastEventId |-> <<>>]

Task(kind, att, err, event, delay) ==
    [kind |-> kind, att |-> att, err |-> err, event |-> event,
     delay |-> delay]

Event(kind, err, event) == [kind |-> kind, err |-> err, event |-> event]

\* this.dispatchEvent(e), for an event that attempt a gave rise to
DispatchEvent(a, e) == events' = [events EXCEPT ![a] = Append(@, e)]

\* the body chunks the server sends
cIdData ==
    <<"i", "d", ":", " ", "1", LF, "d", "a", "t", "a", ":", " ", "x", LF, LF>>

cRetry == <<"r", "e", "t", "r", "y", ":", " ", "5", LF>>

cIdRetry ==
    <<"i", "d", ":", " ", "2", LF, "r", "e", "t", "r", "y",
      ":", " ", "7", "x", LF>>

cTail == <<"d", "a", "t", "a", ":", " ", "y">>

cBlank == <<LF>>

BodyChunks == {cIdData, cRetry, cIdRetry, cTail, cBlank}

NewAttempt(by, of) ==
    [phase |-> "fetch", aborted |-> signalAborted,
     header |-> lastEventId, resp |-> "none",
     buffers |-> EmptyBuffers, lastLine |-> <<>>, reads |-> 0,
     by |-> by, of |-> of, end |-> "none", idRead |-> <<>>]

\* the server sends MaxReads chunks at most, over all the attempts
RECURSIVE SumReads(_)
SumReads(as) == IF as = <<>> THEN 0 ELSE as[1].reads + SumReads(Tail(as))

TotalReads == SumReads(attempts)

\* the model issues MaxAttempts attempts at most: the timer of a reconnect
\* that would issue one more does not expire, and the page stays hidden
CanConnect == Len(attempts) < MaxAttempts

\* #connect: the headers, the fetch, the call of #startFetch up to its
\* first await
Connect(by, of) == attempts' = Append(attempts, NewAttempt(by, of))

\* setTimeout orders callbacks by their delay, and by the order they were
\* set among callbacks of one delay; a negative delay is no delay
Delay(t) == IF t.delay < 0 THEN 0 ELSE t.delay

Due(i) == \A j \in 1..(i - 1) : Delay(timers[j]) > Delay(timers[i])

RemoveAt(s, i) == SubSeq(s, 1, i - 1) \o SubSeq(s, i + 1, Len(s))

\* a decimal number: the retry values the specification counts as valid
IsDecimal(v) == v # <<>> /\ \A i \in 1..Len(v) : v[i] \in Digits

RECURSIVE RetryAfter(_, _)
RetryAfter(lines, r) ==
    IF lines = <<>> THEN r
    ELSE IF lines[1] # <<>> /\ lines[1][1] # ":"
            /\ StatedField(lines[1]) = sRetry
            /\ IsDecimal(StatedValue(lines[1]))
         THEN RetryAfter(Tail(lines), DigitsValue(StatedValue(lines[1]), 0))
    ELSE RetryAfter(Tail(lines), r)

ConnInit ==
    /\ readyState = CONNECTING
    /\ lastEventId = <<>>
    /\ reconnectTime = defaultRetryTime
    /\ signalAborted = FALSE
    /\ disconnectOnHidden \in BOOLEAN
    /\ hidden \in (IF disconnectOnHidden THEN BOOLEAN ELSE {FALSE})
    /\ attempts = <<[phase |-> "fetch", aborted |-> FALSE, header |-> <<>>,
                     resp |-> "none", buffers |-> EmptyBuffers,
                     lastLine |-> <<>>, reads |-> 0,
                     by |-> "constructor", of |-> 0,
                     end |-> "none", idRead |-> <<>>]>>
    /\ timers = <<>>
    /\ micro = <<>>
    /\ events = [a \in 1..MaxAttempts |-> <<>>]
    /\ lastRetry = defaultRetryTime

ConnIdle ==
    /\ readyState = CLOSED
    /\ lastEventId = <<>>
    /\ reconnectTime = defaultRetryTime
    /\ signalAborted = TRUE
    /\ hidden = FALSE
    /\ disconnectOnHidden = FALSE
    /\ attempts = <<>>
    /\ timers = <<>>
    /\ micro = <<>>
    /\ events = [a \in 1..MaxAttempts |-> <<>>]
    /\ lastRetry = defaultRetryTime

\* #startFetch has returned: its locals (buffers, the iterator, the signal
\* it was given) are gone
Settled(at, end) ==
    [at EXCEPT !.phase = "done", !.aborted = FALSE,
               !.buffers = EmptyBuffers, !.lastLine = <<>>,
               !.end = end, !.idRead = at.buffers.lastEventId]

\* (mutant) #reconnect without its errorTask
ReconnectSilently(a) ==
    /\ micro' = micro
    /\ timers' = Append(timers,
                        Task("reconnect", a, "network", NoEvent,
                             reconnectTime))

\* the catch of #startFetch for a TypeError: #reconnect up to its first
\* await: the error microtask is queued and the timer is set
Reconnect(a) ==
    /\ micro' = Append(micro, Task("errorTask", a, "network", NoEvent, 0))
    /\ timers' = Append(timers,
                        Task("reconnect", a, "network", NoEvent,
                             reconnectTime))

\* (mutant) #startFetch without its check of the response
FetchResolveUnchecked(a, valid) ==
    /\ micro = <<>>
    /\ attempts[a].phase = "fetch"
    /\ ~attempts[a].aborted
    /\ attempts' = [attempts EXCEPT
                        ![a].phase = "read",
                        ![a].resp = IF valid THEN "valid" ELSE "invalid"]
    /\ timers' = Append(timers, Task("open", a, "", NoEvent, 0))
    /\ UNCHANGED <<readyState, lastEventId, reconnectTime, signalAborted,
                   micro, events, hidden, disconnectOnHidden, lastRetry>>
    /\ UNCHANGED <<framerVars, parserVars, handlerVars>>

\* fetchPromise resolves: the response is checked, and #fail or #announce
\* sets its timer
FetchResolveBody(a, valid) ==
    /\ micro = <<>>
    /\ attempts[a].phase = "fetch"
    /\ ~attempts[a].aborted
    /\ IF valid
       THEN /\ attempts' = [attempts EXCEPT ![a].phase = "read",
                                            ![a].resp = "valid"]
            /\ timers' = Append(timers, Task("open", a, "", NoEvent, 0))
       ELSE /\ attempts' = [attempts EXCEPT
                                ![a] = Settled([@ EXCEPT !.resp = "invalid"],
                                               "invalid")]
            /\ timers' = Append(timers, Task("fail", a, "invalid", NoEvent, 0))
    /\ UNCHANGED <<readyState, lastEventId, reconnectTime, signalAborted,
                   micro, events, hidden, disconnectOnHidden, lastRetry>>
    /\ UNCHANGED <<framerVars, parserVars, handlerVars>>

FetchResolve(a, valid) == FetchResolveBody(a, valid)

\* fetchPromise rejects with a TypeError (a network error)
FetchReject(a) ==
    /\ micro = <<>>
    /\ attempts[a].phase = "fetch"
    /\ ~attempts[a].aborted
    /\ attempts' = [attempts EXCEPT ![a] = Settled(@, "network")]
    /\ Reconnect(a)
    /\ UNCHANGED <<readyState, lastEventId, reconnectTime, signalAborted,
                   events, hidden, disconnectOnHidden, lastRetry>>
    /\ UNCHANGED <<framerVars, parserVars, handlerVars>>

\* the state #handleEvent works on, for attempt a
ParseState(a) ==
    [buffers |-> attempts[a].buffers, lastEventId |-> lastEventId,
     reconnectTime |-> reconnectTime, tasks |-> <<>>]

MessageTasks(a, tasks) ==
    [i \in 1..Len(tasks) |-> Task("message", a, "", tasks[i], 0)]

\* the lines are handled, and #dispatch sets a timer for each event
Handle(a, lines, carry, done) ==
    LET st == HandleLines(lines, ParseState(a))
    IN  /\ attempts' = [attempts EXCEPT
                            ![a] = IF done
                                   THEN Settled([@ EXCEPT
                                                    !.buffers = st.buffers],
                                                "end")
                                   ELSE [@ EXCEPT !.buffers = st.buffers,
                                                  !.lastLine = carry,
                                                  !.reads = @ + 1]]
        /\ lastEventId' = st.lastEventId
        /\ reconnectTime' = st.reconnectTime
        /\ timers' = timers \o MessageTasks(a, st.tasks)
        /\ lastRetry' = RetryAfter(lines, lastRetry)

\* reader.read() resolves with a chunk: the iterator yields its lines
ReadChunk(a, c) ==
    /\ micro = <<>>
    /\ attempts[a].phase = "read"
    /\ ~attempts[a].aborted
    /\ TotalReads < MaxReads
    /\ Handle(a, ChunkLines(attempts[a].lastLine, c),
              ChunkCarry(attempts[a].lastLine, c), FALSE)
    /\ UNCHANGED <<readyState, signalAborted, micro, events, hidden,
                   disconnectOnHidden>>
    /\ UNCHANGED <<framerVars, parserVars, handlerVars>>

\* reader.read() resolves with done: the iterator yields a non-empty
\* lastLine, the loop ends and #startFetch returns
BodyEnd(a) ==
    /\ micro = <<>>
    /\ attempts[a].phase = "read"
    /\ ~attempts[a].aborted
    /\ Handle(a, EndLines(attempts[a].lastLine), <<>>, TRUE)
    /\ UNCHANGED <<readyState, signalAborted, micro, events, hidden,
                   disconnectOnHidden>>
    /\ UNCHANGED <<framerVars, parserVars, handlerVars>>

\* reader.read() rejects with a TypeError (a network error)
BodyFail(a) ==
    /\ micro = <<>>
    /\ attempts[a].phase = "read"
    /\ ~attempts[a].aborted
    /\ attempts' = [attempts EXCEPT ![a] = Settled(@, "network")]
    /\ Reconnect(a)
    /\ UNCHANGED <<readyState, lastEventId, reconnectTime, signalAborted,
                   events, hidden, disconnectOnHidden, lastRetry>>
    /\ UNCHANGED <<framerVars, parserVars, handlerVars>>

\* the fetch or the read of an aborted signal rejects with an AbortError:
\* #fail(null) sets its timer
AbortReject(a) ==
    /\ micro = <<>>
    /\ attempts[a].phase # "done"
    /\ attempts[a].aborted
    /\ attempts' = [attempts EXCEPT ![a] = Settled(@, "abort")]
    /\ timers' = Append(timers, Task("fail", a, "null", NoEvent, 0))
    /\ UNCHANGED <<readyState, lastEventId, reconnectTime, signalAborted,
                   micro, events, hidden, disconnectOnHidden, lastRetry>>
    /\ UNCHANGED <<framerVars, parserVars, handlerVars>>

Fires(i, kind) ==
    /\ micro = <<>>
    /\ i \in 1..Len(timers)
    /\ timers[i].kind = kind
    /\ Due(i)
    /\ timers' = RemoveAt(timers, i)

\* (mutant) #announce without its check of readyState
OpenTaskUnchecked(t) ==
    /\ readyState' = OPEN
    /\ DispatchEvent(t.att, Event("open", "", NoEvent))

\* the timer of #announce
OpenTask(t) ==
    IF readyState = CLOSED
    THEN UNCHANGED <<readyState, events>>
    ELSE /\ readyState' = OPEN
         /\ DispatchEvent(t.att, Event("open", "", NoEvent))

OpenTimer(i) ==
    /\ Fires(i, "open")
    /\ OpenTask(timers[i])
    /\ UNCHANGED <<lastEventId, reconnectTime, signalAborted, attempts,
                   micro, hidden, disconnectOnHidden, lastRetry>>
    /\ UNCHANGED <<framerVars, parserVars, handlerVars>>

\* the timer of #dispatch
MessageTask(t) ==
    IF readyState # CLOSED
    THEN DispatchEvent(t.att, Event("message", "", t.event))
    ELSE UNCHANGED events

MessageTimer(i) ==
    /\ Fires(i, "message")
    /\ MessageTask(timers[i])
    /\ UNCHANGED <<readyState, lastEventId, reconnectTime, signalAborted,
                   attempts, micro, hidden, disconnectOnHidden, lastRetry>>
    /\ UNCHANGED <<framerVars, parserVars, handlerVars>>

\* the timer of #fail
FailTask(t) ==
    IF readyState = CLOSED
    THEN UNCHANGED <<readyState, events>>
    ELSE /\ readyState' = CONNECTING
         /\ DispatchEvent(t.att, Event("error", t.err, NoEvent))

FailTimer(i) ==
    /\ Fires(i, "fail")
    /\ FailTask(timers[i])
    /\ UNCHANGED <<lastEventId, reconnectTime, signalAborted, attempts,
                   micro, hidden, disconnectOnHidden, lastRetry>>
    /\ UNCHANGED <<framerVars, parserVars, handlerVars>>

\* the timer of #reconnect resolves the awaited promise; errorTask has
\* settled by then, so the last then-callback is queued
ReconnectTimer(i) ==
    /\ Fires(i, "reconnect")
    /\ readyState = CONNECTING => CanConnect
    /\ micro' = Append(micro, Task("connect", timers[i].att, "", NoEvent, 0))
    /\ UNCHANGED <<readyState, lastEventId, reconnectTime, signalAborted,
                   attempts, events, hidden, disconnectOnHidden, lastRetry>>
    /\ UNCHANGED <<framerVars, parserVars, handlerVars>>

\* errorTask of #reconnect
ErrorTaskBody(t) ==
    IF readyState = CLOSED
    THEN UNCHANGED <<readyState, events>>
    ELSE /\ readyState' = CONNECTING
         /\ DispatchEvent(t.att, Event("error", t.err, NoEvent))

ErrorTask ==
    /\ micro # <<>>
    /\ Head(micro).kind = "errorTask"
    /\ micro' = Tail(micro)
    /\ ErrorTaskBody(Head(micro))
    /\ UNCHANGED <<lastEventId, reconnectTime, signalAborted, attempts,
                   timers, hidden, disconnectOnHidden, lastRetry>>
    /\ UNCHANGED <<framerVars, parserVars, handlerVars>>

\* the last then-callback of #reconnect
ReconnectThenBody(t) ==
    IF readyState # CONNECTING
    THEN UNCHANGED attempts
    ELSE Connect("reconnect", t.att)

ReconnectThen ==
    /\ micro # <<>>
    /\ Head(micro).kind = "connect"
    /\ micro' = Tail(micro)
    /\ ReconnectThenBody(Head(micro))
    /\ UNCHANGED <<readyState, lastEventId, reconnectTime, signalAborted,
                   timers, events, hidden, disconnectOnHidden, lastRetry>>
    /\ UNCHANGED <<framerVars, parserVars, handlerVars>>

\* abortController.abort(): every fetch and read given its signal is
\* aborted; those are the attempts still in flight, the earlier
\* controllers having been aborted when they were replaced
Aborted == 
    [a \in 1..Len(attempts) |->
        IF attempts[a].phase # "done"
        THEN [attempts[a] EXCEPT !.aborted = TRUE]
        ELSE attempts[a]]

\* close()
CloseBody ==
    /\ readyState' = CLOSED
    /\ signalAborted' = TRUE
    /\ attempts' = Aborted

Close ==
    /\ CloseBody
    /\ UNCHANGED <<lastEventId, reconnectTime, timers, micro, events,
                   hidden, disconnectOnHidden, lastRetry>>
    /\ UNCHANGED <<framerVars, parserVars, handlerVars>>

\* #handleVisibilityChange, registered when disconnectOnHidden is set,
\* runs as the page becomes hidden
Hidden ==
    /\ micro = <<>>
    /\ disconnectOnHidden
    /\ ~hidden
    /\ hidden' = TRUE
    /\ attempts' = Aborted
    /\ signalAborted' = FALSE
    /\ UNCHANGED <<readyState, lastEventId, reconnectTime, timers, micro,
                   events, disconnectOnHidden, lastRetry>>
    /\ UNCHANGED <<framerVars, parserVars, handlerVars>>

\* #handleVisibilityChange runs as the page becomes visible
VisibleBody ==
    IF readyState # CLOSED
    THEN /\ CanConnect
         /\ readyState' = CONNECTING
         /\ Connect("visible", 0)
    ELSE UNCHANGED <<readyState, attempts>>

Visible ==
    /\ micro = <<>>
    /\ disconnectOnHidden
    /\ hidden
    /\ hidden' = FALSE
    /\ VisibleBody
    /\ UNCHANGED <<lastEventId, reconnectTime, signalAborted, timers, micro,
                   events, disconnectOnHidden, lastRetry>>
    /\ UNCHANGED <<framerVars, parserVars, handlerVars>>

FetchResolves ==
    \E a \in 1..Len(attempts) : \E valid \in BOOLEAN : FetchResolve(a, valid)

FetchRejects == \E a \in 1..Len(attempts) : FetchReject(a)

ReadsChunk == \E a \in 1..Len(attempts) : \E c \in BodyChunks : ReadChunk(a, c)

BodyEnds == \E a \in 1..Len(attempts) : BodyEnd(a)

BodyFails == \E a \in 1..Len(attempts) : BodyFail(a)

AbortRejects == \E a \in 1..Len(attempts) : AbortReject(a)

OpenTimerFires == \E i \in 1..Len(timers) : OpenTimer(i)

MessageTimerFires == \E i \in 1..Len(timers) : MessageTimer(i)

FailTimerFires == \E i \in 1..Len(timers) : FailTimer(i)

ReconnectTimerFires == \E i \in 1..Len(timers) : ReconnectTimer(i)

Next ==
    \/ FetchResolves
    \/ FetchRejects
    \/ ReadsChunk
    \/ BodyEnds
    \/ BodyFails
    \/ AbortRejects
    \/ OpenTimerFires
    \/ MessageTimerFires
    \/ FailTimerFires
    \/ ReconnectTimerFires
    \/ ErrorTask
    \/ ReconnectThen
    \/ Close
    \/ Hidden
    \/ Visible

(***************************************************************************)
(* HandlerSpec: the onopen, onmessage, onerror and onclose properties.     *)
(*                                                                         *)
(*   onHandler   for each event type, the value of #onopen, ... (a         *)
(*               function, or null);                                       *)
(*   listeners   for each event type, the functions the setters have       *)
(*               registered with addEventListener and not removed.         *)
(***************************************************************************)
EventTypes == {"open", "message", "error", "close"}

Null == "null"

Functions == {"f", "g"}

HandlerStart ==
    /\ onHandler = [t \in EventTypes |-> Null]
    /\ listeners = [t \in EventTypes |-> {}]

\* set onopen(value), set onmessage(value), ...: removeEventListener with a
\* null callback removes nothing
SetHandler(t, value) ==
    /\ IF value # Null
       THEN listeners' = [listeners EXCEPT ![t] = @ \cup {value}]
       ELSE listeners' = [listeners EXCEPT ![t] = @ \ {onHandler[t]}]
    /\ onHandler' = [onHandler EXCEPT ![t] = value]
    /\ UNCHANGED <<framerVars, parserVars, connVars>>

SetsHandler ==
    \E t \in EventTypes : \E value \in Functions \cup {Null} :
        SetHandler(t, value)

HandlerNext == SetsHandler

(***************************************************************************)
(* The specifications.                                                     *)
(***************************************************************************)
FramerSpecInit ==
    /\ FramerInit
    /\ ParserIdle
    /\ ConnIdle
    /\ HandlerStart

FramerSpec == FramerSpecInit /\ [][FramerNext]_vars

ParserSpecInit ==
    /\ ParserInit
    /\ FramerIdle
    /\ ConnIdle
    /\ HandlerStart

HandlerSpecInit ==
    /\ HandlerStart
    /\ FramerIdle
    /\ ParserIdle
    /\ ConnIdle

HandlerSpec == HandlerSpecInit /\ [][HandlerNext]_vars

ParserSpec == ParserSpecInit /\ [][ParserNext]_vars

Init ==
    /\ ConnInit
    /\ FramerIdle
    /\ ParserIdle
    /\ HandlerStart

Spec == Init /\ [][Next]_vars

\* the event loop runs every timer callback that is due and every queued
\* promise reaction, and a fetch or a read whose signal was aborted rejects;
\* nothing else obliges the network, the page or the user
TimerStep ==
    OpenTimerFires \/ MessageTimerFires \/ FailTimerFires
        \/ ReconnectTimerFires

MicroStep == ErrorTask \/ ReconnectThen

LiveSpec ==
    /\ Spec
    /\ WF_vars(TimerStep)
    /\ WF_vars(MicroStep)
    /\ WF_vars(AbortRejects)

RECURSIVE Concat(_)
Concat(ss) == IF ss = <<>> THEN <<>> ELSE ss[1] \o Concat(Tail(ss))

\* the whole text split on \r\n, \r or \n, a non-empty unterminated tail last
WholeLines(text) ==
    LET p == Split(text)
    IN  IF Last(p) = <<>> THEN Front(p) ELSE p

\* C9: for every text and every chunking of it, the iterator yields the
\* lines of the whole text.
C9_ChunkingIndependent == fDone => fOut = WholeLines(Concat(fChunks))

\* the run that the blank line at p terminates: the lines after the
\* previous blank line (or after the start of the body)
RECURSIVE RunStart(_)
RunStart(p) ==
    IF p = 1 \/ pLines[p - 1] = <<>> THEN p ELSE RunStart(p - 1)

RunOf(p) == SubSeq(pLines, RunStart(p), p - 1)

IsDataEventRun(run) ==
    /\ \A i \in 1..Len(run) : StatedField(run[i]) \in {sData, sEvent}
    /\ \E i \in 1..Len(run) : StatedField(run[i]) = sData

RECURSIVE JoinedData(_)
JoinedData(run) ==
    IF run = <<>> THEN <<>>
    ELSE IF StatedField(Last(run)) # sData THEN JoinedData(Front(run))
    ELSE IF \E i \in 1..(Len(run) - 1) : StatedField(run[i]) = sData
         THEN JoinedData(Front(run)) \o <<LF>> \o StatedValue(Last(run))
    ELSE StatedValue(Last(run))

RECURSIVE LastEventType(_)
LastEventType(run) ==
    IF run = <<>> THEN sMessage
    ELSE IF StatedField(Last(run)) = sEvent
         THEN IF StatedValue(Last(run)) = <<>> THEN sMessage
              ELSE StatedValue(Last(run))
    ELSE LastEventType(Front(run))

AtBlankAfterRun ==
    /\ pPos > 0
    /\ pLines[pPos] = <<>>
    /\ IsDataEventRun(RunOf(pPos))

\* C10: the blank line that ends a run of data: (and event:) lines
\* schedules exactly one event, whose data is the run's data values joined
\* by "\n" and whose type is the run's last event: value, or "message".
C10_RunYieldsOneEvent ==
    AtBlankAfterRun =>
        /\ Len(pSt.tasks) = 1
        /\ pSt.tasks[1].data = JoinedData(RunOf(pPos))
        /\ pSt.tasks[1].type = LastEventType(RunOf(pPos))

(***************************************************************************)
(* The claims about the connection.                                        *)
(***************************************************************************)
ErrorEvent(err) == Event("error", err, NoEvent)

Has(log, e) == \E i \in 1..Len(log) : log[i] = e

\* the 'open' and message events among those dispatched for attempt a
Observed(log) == SelectSeq(log, LAMBDA e : e.kind \in {"open", "message"})

\* C1: once close() has been called readyState stays CLOSED, and no later
\* step dispatches an 'open' or a message event or issues a connect
\* attempt.
C1_ClosedIsFinal ==
    [][readyState = CLOSED =>
          /\ readyState' = CLOSED
          /\ Len(attempts') = Len(attempts)
          /\ \A a \in 1..MaxAttempts :
                Observed(events'[a]) = Observed(events[a])]_vars

\* closed, with every timer and reaction run: of some attempt whose open
\* was announced and whose read failed, the 'open' timer and the whole
\* reconnect ran after close() and did nothing
C1_Witness ==
    /\ readyState = CLOSED
    /\ timers = <<>>
    /\ micro = <<>>
    /\ Len(attempts) = 1
    /\ attempts[1].resp = "valid"
    /\ attempts[1].end = "network"
    /\ ~Has(events[1], Event("open", "", NoEvent))

\* attempt a is the last one issued and ended the given way
LastEnded(a, end) == Len(attempts) = a /\ attempts[a].end = end

Reissued(a) == readyState = CLOSED \/ Len(attempts) > a

\* C2: after a network failure of the last attempt issued, a new connect
\* attempt is eventually issued, unless close() is called.
C2_NetworkFailureReconnects ==
    \A a \in 1..(MaxAttempts - 1) : LastEnded(a, "network") ~> Reissued(a)

\* C3: when #reconnect issues its connect attempt, the 'error' event of the
\* network failure it handles has been dispatched.
C3_ErrorBeforeReconnect ==
    [][(Len(attempts') > Len(attempts) /\ Last(attempts').by = "reconnect")
          => Has(events[Last(attempts').of], ErrorEvent("network"))]_vars

C3_Witness ==
    \E a \in 1..Len(attempts) :
        /\ attempts[a].by = "reconnect"
        /\ attempts[attempts[a].of].end = "network"

\* C4: the delay of the timer that #reconnect sets is the integer value of
\* the last valid retry: line received on any attempt so far, or 1000 when
\* none was received.
C4_DelayIsLastRetry ==
    [][(Len(timers') = Len(timers) + 1 /\ Last(timers').kind = "reconnect")
          => Last(timers').delay = lastRetry]_vars

\* an attempt whose response is invalid has returned, has set no timer but
\* that of #fail and has dispatched nothing but errors
InvalidNeverOpens ==
    \A a \in 1..Len(attempts) :
        attempts[a].resp = "invalid" =>
            /\ attempts[a].phase = "done"
            /\ \A i \in 1..Len(timers) :
                  timers[i].att = a => timers[i].kind = "fail"
            /\ \A i \in 1..Len(events[a]) : events[a][i].kind = "error"

\* what the #fail timer of an invalid response does when it runs
InvalidFailTimer ==
    \A i \in 1..Len(timers) :
        (Fires(i, "fail") /\ timers[i].err = "invalid"
            /\ readyState # CLOSED) =>
                /\ readyState' = CONNECTING
                /\ events'[timers[i].att] =
                      Append(events[timers[i].att], ErrorEvent("invalid"))

\* the error of an invalid response is dispatched, or is still to be
InvalidErrorDispatched ==
    \A a \in 1..Len(attempts) :
        attempts[a].resp = "invalid" =>
            \/ readyState = CLOSED
            \/ Has(events[a], ErrorEvent("invalid"))
            \/ \E i \in 1..Len(timers) :
                  timers[i] = Task("fail", a, "invalid", NoEvent, 0)

\* C5: an attempt whose response is invalid never announces 'open' and
\* never reads the body; its #fail timer, unless the connection is CLOSED,
\* sets readyState to CONNECTING and dispatches the invalid-response error.
C5_InvalidResponseFails ==
    /\ [](InvalidNeverOpens /\ InvalidErrorDispatched)
    /\ [][InvalidFailTimer]_vars

C5_Witness ==
    \E a \in 1..Len(attempts) :
        /\ attempts[a].resp = "invalid"
        /\ readyState = CONNECTING
        /\ Has(events[a], ErrorEvent("invalid"))

\* C6: after an invalid response a new connect attempt is eventually
\* issued, unless the connection is closed.
C6_InvalidResponseReconnects ==
    \A a \in 1..(MaxAttempts - 1) : LastEnded(a, "invalid") ~> Reissued(a)

\* C7: after the response body has ended normally a new connect attempt is
\* eventually issued, unless the connection is closed.
C7_BodyEndReconnects ==
    \A a \in 1..(MaxAttempts - 1) : LastEnded(a, "end") ~> Reissued(a)

\* the step reads a chunk that completes a blank line
BlankLineRead ==
    \E a \in 1..Len(attempts) : \E c \in BodyChunks :
        /\ ReadChunk(a, c)
        /\ \E k \in 1..Len(ChunkLines(attempts[a].lastLine, c)) :
              ChunkLines(attempts[a].lastLine, c)[k] = <<>>

\* C8: the committed lastEventId changes only in a step that handles a
\* blank line, and every connect attempt sends the committed value.
C8_IdCommittedAtBlankLine ==
    [][/\ lastEventId' # lastEventId => BlankLineRead
       /\ Len(attempts') > Len(attempts) =>
              Last(attempts').header = lastEventId]_vars

\* the first attempt committed id 1, then read id: 2 and no blank line,
\* and failed; the reconnect sent Last-Event-ID: 1
C8_Witness ==
    /\ Len(attempts) = 2
    /\ attempts[1].end = "network"
    /\ attempts[1].idRead = <<"2">>
    /\ attempts[2].by = "reconnect"
    /\ attempts[2].header = <<"1">>

(***************************************************************************)
(* The claims about the parser (continued).                                *)
(***************************************************************************)
\* the blank line about to be handled finds the data buffer empty
BlankOnEmptyData ==
    /\ pPos < Len(pLines)
    /\ pLines[pPos + 1] = <<>>
    /\ pSt.buffers.data = <<>>

\* the type of the event a blank line schedules is decided by the lines of
\* its own block only
TypeFromOwnBlock ==
    (pPos > 0 /\ pLines[pPos] = <<>> /\ pSt.tasks # <<>>) =>
        pSt.tasks[1].type = LastEventType(RunOf(pPos))

\* C11: a blank line handled while the data buffer is empty schedules no
\* event and resets eventType, so that an event: line before it does not
\* decide the type of any later event.
C11_BlankOnEmptyDataResets ==
    /\ []TypeFromOwnBlock
    /\ [][BlankOnEmptyData =>
              /\ pSt'.tasks = <<>>
              /\ pSt'.buffers.eventType = <<>>]_vars

\* event: e, a blank line, data: x, a blank line: one event, of type
\* "message"
C11_Witness ==
    /\ pLines = <<lEventE, lBlank, lDataX, lBlank>>
    /\ pPos = 4
    /\ Len(pSt.tasks) = 1
    /\ pSt.tasks[1].type = sMessage

\* the line about to be handled is a field line: not blank, not a comment
NextLine == pLines[pPos + 1]

AtFieldLine ==
    /\ pPos < Len(pLines)
    /\ NextLine # <<>>
    /\ NextLine[1] # ":"

\* C16: an id: line whose value contains a NUL leaves the pending id (and
\* so the id committed at the next blank line) as it was.
C16_NulIdIgnored ==
    [][(AtFieldLine /\ StatedField(NextLine) = sId
            /\ Includes(StatedValue(NextLine), NUL)) =>
          pSt'.buffers.lastEventId = pSt.buffers.lastEventId]_vars

\* C17: the field of a line is the text before its first ':' and the value
\* everything after it, less at most one leading space; a data: line adds
\* that whole value to the data buffer.
C17_SplitAtFirstColon ==
    [][AtFieldLine =>
          /\ FieldOf(NextLine) = StatedField(NextLine)
          /\ ValueOf(NextLine) = StatedValue(NextLine)
          /\ StatedField(NextLine) = sData =>
                pSt'.buffers.data =
                    pSt.buffers.data \o StatedValue(NextLine) \o <<LF>>]_vars

\* C18: the reconnect delay is an integer >= 0: the value of the last
\* retry: line whose value is a decimal number, whatever other retry: lines
\* were received.
C18_DelayNonNegative ==
    /\ pSt.reconnectTime >= 0
    /\ pSt.reconnectTime =
          RetryAfter(SubSeq(pLines, 1, pPos), defaultRetryTime)

(***************************************************************************)
(* The claims about the connection (continued).                            *)
(***************************************************************************)
NullErrorFired ==
    \E a \in 1..MaxAttempts : Has(events[a], ErrorEvent("null"))

\* C12: when the connection is closed with close(), an 'error' event whose
\* error is null is eventually dispatched.
C12_CloseFiresNullError == (readyState = CLOSED) ~> NullErrorFired

\* in the events of one attempt, 'open' precedes every message, and the
\* 'error' of its failure follows them all
OrderedLog(log) ==
    \A i \in 1..Len(log) : \A j \in (i + 1)..Len(log) :
        /\ ~(log[i].kind = "error" /\ log[j].kind \in {"open", "message"})
        /\ ~(log[i].kind = "message" /\ log[j].kind = "open")

\* C14: the events of an attempt are dispatched in the order they were
\* issued: 'open', then the messages, then the 'error' of its failure; no
\* attempt sets readyState to OPEN after its error has set it to CONNECTING.
C14_EventsInIssueOrder == \A a \in 1..MaxAttempts : OrderedLog(events[a])

\* the attempts whose fetch or body read is pending and not aborted
InFlight ==
    {a \in 1..Len(attempts) :
        attempts[a].phase # "done" /\ ~attempts[a].aborted}

\* C15: at most one transport operation is in flight.
C15_OneTransportInFlight == Cardinality(InFlight) <= 1

ReconnectPending ==
    \/ \E i \in 1..Len(timers) : timers[i].kind = "reconnect"
    \/ \E i \in 1..Len(micro) : micro[i].kind \in {"errorTask", "connect"}

\* C19: when readyState is OPEN a fetch or a body read is in flight, or a
\* reconnect is pending.
C19_OpenHasTransport ==
    readyState = OPEN =>
        \/ \E a \in 1..Len(attempts) : attempts[a].phase # "done"
        \/ ReconnectPending

NoIdLine(lines) ==
    \A k \in 1..Len(lines) : StatedField(lines[k]) # sId

\* C20: the blank line of an event block that holds no id: line, read by an
\* attempt that #reconnect issued and that has read no id: line at all,
\* leaves the committed lastEventId (the Last-Event-ID of the next attempt)
\* as it was.
C20_BlockWithoutIdKeepsId ==
    [][\A a \in 1..Len(attempts) : \A c \in BodyChunks :
          (/\ ReadChunk(a, c)
           /\ attempts[a].by = "reconnect"
           /\ attempts[a].buffers.lastEventId = <<>>
           /\ NoIdLine(ChunkLines(attempts[a].lastLine, c)))
              => lastEventId' = lastEventId]_vars

\* C13: of the handlers assigned through onopen, onmessage, onerror or
\* onclose, at most one is subscribed, and it is the one assigned last
\* (none after null was assigned).
C13_OneHandlerPerProperty ==
    \A t \in EventTypes : listeners[t] \subseteq ({onHandler[t]} \ {Null})

====
